---- MODULE Spec2Model ----
(***************************************************************************)
(* docker_backup: backup of stateful data living inside running            *)
(* containers (main.py, docker_backup.py).                                 *)
(*                                                                         *)
(* Text (str) and byte strings are sequences of one-character strings.     *)
(* Python's None is the empty tuple and a present value v is <<v>>.        *)
(***************************************************************************)
EXTENDS Integers, Sequences, FiniteSets, TLC

VARIABLES
    argv,        \* sys.argv[1:], each argument a text
    pc,          \* position of main.py: start, construct, execute, backup, prune, exit (unit: a library call)
    status,      \* process exit status once pc = "exit", -1 before
    error,       \* name of the uncaught exception that ended the run, "" if none
    PATH,        \* main.py PATH, None until set
    MAX_DAYS,    \* main.py MAX_DAYS, None until set
    now,         \* wall clock, seconds since 2024-01-01 00:00:00 local time
    running,     \* container runtime: names of the running containers, in listing order
    dirExists,   \* whether the backup directory exists on the filesystem
    files,       \* filesystem: path -> [data, mtime] of the regular files
    strat,       \* index in Strategies of the strategy being constructed or executed
    containers,  \* self.containers of the current strategy
    listed,      \* what containers.list() returned to the current strategy's constructor
    idx,         \* position of execute()'s loop over self.containers
    paths,       \* ls_output.split("\n") of the container being processed
    pidx,        \* position of the loop over paths
    log,         \* the run's operations on its collaborators, in order
    unit         \* a direct call of a library function: arguments and result

vars == <<argv, pc, status, error, PATH, MAX_DAYS, now, running, dirExists, files,
          strat, containers, listed, idx, paths, pidx, log, unit>>

mainVars == <<argv, pc, status, error, PATH, MAX_DAYS, now, running, dirExists, files,
              strat, containers, listed, idx, paths, pidx, log>>

----------------------------------------------------------------------------
(* Bounds *)

MaxTicks == 1

MaxTextLen == 6

MaxKeywords == 2

----------------------------------------------------------------------------
(* Python values *)

None == <<>>

Some(v) == <<v>>

Range(s) == {s[i] : i \in 1..Len(s)}

Last(s) == s[Len(s)]

Digit(n) == CASE n = 0 -> "0" [] n = 1 -> "1" [] n = 2 -> "2" [] n = 3 -> "3" [] n = 4 -> "4"
              [] n = 5 -> "5" [] n = 6 -> "6" [] n = 7 -> "7" [] n = 8 -> "8" [] n = 9 -> "9"

DigitValue(c) == CASE c = "0" -> 0 [] c = "1" -> 1 [] c = "2" -> 2 [] c = "3" -> 3 [] c = "4" -> 4
                   [] c = "5" -> 5 [] c = "6" -> 6 [] c = "7" -> 7 [] c = "8" -> 8 [] c = "9" -> 9

Digits == {"0", "1", "2", "3", "4", "5", "6", "7", "8", "9"}

Whitespace == {" ", "\n", "\t"}

\* "%02d"
TwoDigits(n) == <<Digit((n \div 10) % 10), Digit(n % 10)>>

\* str.split(sep) for a one-character separator: every occurrence splits, empty pieces are kept
RECURSIVE str_split(_, _)
str_split(s, sep) ==
    IF \A i \in 1..Len(s) : s[i] # sep
    THEN <<s>>
    ELSE LET i == CHOOSE i \in 1..Len(s) : s[i] = sep /\ \A j \in 1..(i - 1) : s[j] # sep
         IN  <<SubSeq(s, 1, i - 1)>> \o str_split(SubSeq(s, i + 1, Len(s)), sep)

\* str.strip()
RECURSIVE str_strip(_)
str_strip(s) ==
    IF s = <<>> THEN s
    ELSE IF Head(s) \in Whitespace THEN str_strip(Tail(s))
    ELSE IF Last(s) \in Whitespace THEN str_strip(SubSeq(s, 1, Len(s) - 1))
    ELSE s

\* k in name: substring search, left to right
RECURSIVE str_contains(_, _)
str_contains(name, k) ==
    IF Len(k) > Len(name) THEN FALSE
    ELSE IF SubSeq(name, 1, Len(k)) = k THEN TRUE
    ELSE str_contains(Tail(name), k)

\* int(text): optional surrounding whitespace and sign, then decimal digits; None stands for ValueError
RECURSIVE DecimalValue(_, _)
DecimalValue(s, acc) ==
    IF s = <<>> THEN acc ELSE DecimalValue(Tail(s), 10 * acc + DigitValue(Head(s)))

int(text) ==
    LET s == str_strip(text)
        signed == s # <<>> /\ Head(s) \in {"+", "-"}
        body == IF signed THEN Tail(s) ELSE s
    IN  IF body = <<>> \/ \E i \in 1..Len(body) : body[i] \notin Digits
        THEN None
        ELSE Some(IF signed /\ Head(s) = "-" THEN 0 - DecimalValue(body, 0) ELSE DecimalValue(body, 0))

\* a dict is a function from its keys
EmptyDict == [k \in {} |-> <<>>]

DictSet(d, k, v) == [x \in DOMAIN d \cup {k} |-> IF x = k THEN v ELSE d[x]]

\* dict.get(k)
DictGet(d, k) == IF k \in DOMAIN d THEN Some(d[k]) ELSE None

\* f'{value}' of an optional text: None is formatted as the text None
FStr(opt) == IF opt = None THEN <<"N", "o", "n", "e">> ELSE opt[1]

\* os.path.join of two components
os_path_join(a, b) ==
    IF b # <<>> /\ Head(b) = "/" THEN b
    ELSE IF a = <<>> \/ Last(a) = "/" THEN a \o b
    ELSE a \o <<"/">> \o b

\* os.path.basename: what follows the last "/"
os_path_basename(p) == Last(str_split(p, "/"))

\* os.path.dirname: what precedes the last "/"
os_path_dirname(p) ==
    LET n == Len(os_path_basename(p))
        head == SubSeq(p, 1, Len(p) - n)
    IN  IF Len(head) > 1 THEN SubSeq(head, 1, Len(head) - 1) ELSE head

----------------------------------------------------------------------------
(* docker_backup.py: module functions *)

\* merge_keywords returning the caller's list alone whenever one is given
merge_keywords_custom_only(keywords, custom_keywords) ==
    IF custom_keywords = None THEN keywords ELSE custom_keywords

\* merge_keywords: an optional list merged with an optional list
merge_keywords(keywords, custom_keywords) ==
    IF custom_keywords = None THEN keywords
    ELSE IF keywords = None THEN custom_keywords
    ELSE Some(keywords[1] \o custom_keywords[1])

\* the loop of parse_env skipping only the lines with no "="
RECURSIVE parse_env_loop_at_least_two(_, _)
parse_env_loop_at_least_two(unparsed_env, parsed) ==
    IF unparsed_env = <<>> THEN parsed
    ELSE LET pair_s == str_split(Head(unparsed_env), "=")
         IN  parse_env_loop_at_least_two(Tail(unparsed_env),
                                         IF Len(pair_s) < 2 THEN parsed
                                         ELSE DictSet(parsed, pair_s[1], pair_s[2]))

\* parse_env: the loop over the lines of the container's env output
RECURSIVE parse_env_loop(_, _)
parse_env_loop(unparsed_env, parsed) ==
    IF unparsed_env = <<>> THEN parsed
    ELSE LET pair_s == str_split(Head(unparsed_env), "=")
         IN  parse_env_loop(Tail(unparsed_env),
                            IF Len(pair_s) # 2 THEN parsed
                            ELSE DictSet(parsed, pair_s[1], pair_s[2]))

\* parse_env, from the decoded output of exec_run("env")
parse_env(output) == parse_env_loop(str_split(output, "\n"), EmptyDict)

SecondsPerDay == 86400

\* datetime.strftime("%Y-%m-%d_%H-%M-%S") of second t of January 2024
strftime(t) ==
    <<"2", "0", "2", "4", "-", "0", "1", "-">> \o TwoDigits(1 + t \div SecondsPerDay)
        \o <<"_">> \o TwoDigits((t % SecondsPerDay) \div 3600)
        \o <<"-">> \o TwoDigits((t % 3600) \div 60)
        \o <<"-">> \o TwoDigits(t % 60)

\* format_file_path, called at second t
format_file_path(backup_dir, name, extension, t) ==
    os_path_join(backup_dir, name \o <<"_">> \o strftime(t) \o <<".">> \o extension)

\* gzip.compress: magic header, the deflated payload, a trailer carrying the payload's size
gzip_compress(data) == <<"1f8b">> \o data \o TwoDigits(Len(data))

\* gzip.decompress: None when the header or the trailer does not fit the payload
gzip_decompress(z) ==
    IF Len(z) >= 3 /\ Head(z) = "1f8b" /\ SubSeq(z, Len(z) - 1, Len(z)) = TwoDigits(Len(z) - 3)
    THEN Some(SubSeq(z, 2, Len(z) - 2))
    ELSE None

\* write_compressed_file at second t: the filesystem after open(path, 'wb') and write
write_compressed_file(fs, path, data, t) ==
    [p \in DOMAIN fs \cup {path} |->
        IF p = path THEN [data |-> gzip_compress(data), mtime |-> t] ELSE fs[p]]

\* __helper testing the first keyword alone
filter_helper_first_keyword(name, keywords) ==
    IF keywords = <<>> THEN FALSE ELSE str_contains(name, Head(keywords))

\* BackupStrategy.__filter_containers.__helper: for k in keywords: if k in container.name
RECURSIVE filter_helper(_, _)
filter_helper(name, keywords) ==
    IF keywords = <<>> THEN FALSE
    ELSE IF str_contains(name, Head(keywords)) THEN TRUE
    ELSE filter_helper(name, Tail(keywords))

\* BackupStrategy.__filter_containers: list(filter(__helper, self.containers))
RECURSIVE filter_containers(_, _)
filter_containers(cs, keywords) ==
    IF cs = <<>> THEN <<>>
    ELSE (IF filter_helper(Head(cs), keywords) THEN <<Head(cs)>> ELSE <<>>)
             \o filter_containers(Tail(cs), keywords)

----------------------------------------------------------------------------
(* docker_backup.py: the strategy classes *)

MySQLBackup_keywords == <<<<"m", "y", "s", "q", "l">>, <<"m", "a", "r", "i", "a", "d", "b">>>>

JellyfinBackup_keywords == <<<<"j", "e", "l", "l", "y", "f", "i", "n">>>>

JellyfinBackup_db_path == <<"/", "c", "o", "n", "f", "i", "g", "/", "d", "a", "t", "a">>

JellyfinBackup_db_ext == <<"d", "b">>

\* the application strategies main.py names after JellyfinBackup: SQLite-family
\* specializations, each with its own default keyword list
AppBackup_keywords(cls) ==
    CASE cls = "RadarrBackup" -> <<<<"r", "a", "d", "a", "r", "r">>>>
      [] cls = "SonarrBackup" -> <<<<"s", "o", "n", "a", "r", "r">>>>
      [] cls = "GrocyBackup" -> <<<<"g", "r", "o", "c", "y">>>>
      [] cls = "DuplicatiBackup" -> <<<<"d", "u", "p", "l", "i", "c", "a", "t", "i">>>>

\* ... and its own directory and extension of the database files
AppBackup_db_path(cls) == <<"/", "c", "o", "n", "f", "i", "g">>

AppBackup_db_ext(cls) == <<"d", "b">>

\* self.keywords
ClassKeywords(cls) ==
    CASE cls = "MySQLBackup" -> MySQLBackup_keywords
      [] cls = "JellyfinBackup" -> JellyfinBackup_keywords
      [] OTHER -> AppBackup_keywords(cls)

\* which execute() the class has
IsSQLite(cls) == cls # "MySQLBackup"

\* ls_path of the SQLite-family execute(): os.path.join(self.db_path, f"*.{self.db_ext}")
ls_path(cls) ==
    IF cls = "JellyfinBackup"
    THEN os_path_join(JellyfinBackup_db_path, <<"*", ".">> \o JellyfinBackup_db_ext)
    ELSE os_path_join(AppBackup_db_path(cls), <<"*", ".">> \o AppBackup_db_ext(cls))

\* the command of the listing: f'bash -c "ls {ls_path}"'
ls_command(cls) ==
    <<"b", "a", "s", "h", " ", "-", "c", " ", "\"", "l", "s", " ">> \o ls_path(cls) \o <<"\"">>

\* the dump command of MySQLBackup.execute
mysqldump_command(env) ==
    <<"/", "u", "s", "r", "/", "b", "i", "n", "/", "m", "y", "s", "q", "l", "d", "u", "m", "p", " ">>
        \o FStr(DictGet(env, <<"M", "Y", "S", "Q", "L", "_", "D", "A", "T", "A", "B", "A", "S", "E">>))
        \o <<" ", "-", "u", " ", "r", "o", "o", "t", " ", "-", "p">>
        \o FStr(DictGet(env, <<"M", "Y", "S", "Q", "L", "_", "R", "O", "O", "T", "_", "P", "A", "S", "S", "W", "O", "R", "D">>))

\* the dump command of SQLiteGeneric.backup_database
sqlite_command(path) ==
    <<"/", "u", "s", "r", "/", "b", "i", "n", "/", "s", "q", "l", "i", "t", "e", "3", " ">>
        \o path \o <<" ", ".", "d", "u", "m", "p">>

\* the name of the backup file MySQLBackup.execute writes: f'{container.name}_{env.get("MYSQL_DATABASE")}'
mysql_backup_name(container, env) ==
    container \o <<"_">>
        \o FStr(DictGet(env, <<"M", "Y", "S", "Q", "L", "_", "D", "A", "T", "A", "B", "A", "S", "E">>))

\* file_name of backup_database: the base name, cut at its first "." when it has one
sqlite_file_name(path) ==
    LET file_name == os_path_basename(path)
    IN  IF \E i \in 1..Len(file_name) : file_name[i] = "."
        THEN str_split(file_name, ".")[1]
        ELSE file_name

\* the name of the backup file backup_database writes: f'{container.name}_{file_name}'
sqlite_backup_name(container, path) == container \o <<"_">> \o sqlite_file_name(path)

sql_gz == <<"s", "q", "l", ".", "g", "z">>

\* the constructor leaving a missing directory missing
ensure_backup_dir_skipped(exists) == exists

\* BackupStrategy.__init__ lines 68 and 69: whether backup_dir exists afterwards
ensure_backup_dir(exists) == IF ~exists THEN TRUE ELSE exists

\* BackupStrategy.__init__ with the subclass's merged keywords: the filtered self.containers
\* (None stands for the TypeError of iterating keywords that are None)
Strategy_init(cls, listing, custom_keywords) ==
    LET keywords == merge_keywords(Some(ClassKeywords(cls)), custom_keywords)
    IN  IF keywords = None THEN None ELSE Some(filter_containers(listing, keywords[1]))

\* the pruner removing the files at the cutoff too
delete_old_backups_at_cutoff(fs, backup_dir, max_days, t) ==
    LET kept == {p \in DOMAIN fs :
                    ~(os_path_dirname(p) = backup_dir /\ fs[p].mtime <= t - max_days * SecondsPerDay)}
    IN  [p \in kept |-> fs[p]]

\* the retention pruner: the files directly in backup_dir last modified before
\* t minus max_days days are removed, every other file stays
delete_old_backups(fs, backup_dir, max_days, t) ==
    LET kept == {p \in DOMAIN fs :
                    ~(os_path_dirname(p) = backup_dir /\ fs[p].mtime < t - max_days * SecondsPerDay)}
    IN  [p \in kept |-> fs[p]]

----------------------------------------------------------------------------
(* main.py *)

\* the driver running the Jellyfin strategy before the relational one
Strategies_jellyfin_first ==
    <<"JellyfinBackup", "MySQLBackup", "RadarrBackup", "SonarrBackup", "GrocyBackup", "DuplicatiBackup">>

\* the order of lines 20 to 25
Strategies ==
    <<"MySQLBackup", "JellyfinBackup", "RadarrBackup", "SonarrBackup", "GrocyBackup", "DuplicatiBackup">>

\* the checks of the arguments letting a max_days of 0 through
ArgsOutcome_zero_accepted(args) ==
    IF Len(args) + 1 < 3 THEN "missing"
    ELSE IF int(args[2]) = None THEN "ValueError"
    ELSE IF int(args[2])[1] < 0 THEN "nonpositive"
    ELSE "ok"

\* lines 8 to 18: what the checks of the arguments decide
ArgsOutcome(args) ==
    IF Len(args) + 1 < 3 THEN "missing"
    ELSE IF int(args[2]) = None THEN "ValueError"
    ELSE IF int(args[2])[1] < 1 THEN "nonpositive"
    ELSE "ok"

\* where main.py goes once execute() of strategy s has returned
AfterExecute(s) ==
    IF s < Len(Strategies) THEN [pc |-> "construct", strat |-> s + 1]
    ELSE [pc |-> "prune", strat |-> 0]

----------------------------------------------------------------------------
(* The environment of a run: arguments, container runtime, filesystem, clock *)

BackupDir == <<"/", "b">>

ArgvSet ==
    { <<>>,
      <<BackupDir>>,
      <<BackupDir, <<"x">>>>,
      <<BackupDir, <<"0">>>>,
      <<BackupDir, <<"-", "1">>>>,
      <<BackupDir, <<"2">>>>,
      <<BackupDir, <<"1">>, <<"7">>>> }

nMysql == <<"m", "y", "s", "q", "l">>

nMysqlA == <<"m", "y", "s", "q", "l", "_", "a">>

nMaria == <<"m", "a", "r", "i", "a", "d", "b", "1">>

nUpper == <<"M", "y", "S", "Q", "L">>

nJelly == <<"j", "e", "l", "l", "y", "f", "i", "n">>

nJelly2 == <<"j", "e", "l", "l", "y", "f", "i", "n", "2">>

\* what containers.list() may return when the run starts
Worlds ==
    { <<>>,
      <<nMysql, nMysqlA>>,
      <<nUpper, nMaria>>,
      <<nJelly, nJelly2>>,
      <<nJelly, nUpper, nMysql>> }

\* outputs of env inside a container
EnvOutputs ==
    { <<"M", "Y", "S", "Q", "L", "_", "D", "A", "T", "A", "B", "A", "S", "E", "=", "b", "\n",
        "M", "Y", "S", "Q", "L", "_", "R", "O", "O", "T", "_", "P", "A", "S", "S", "W", "O", "R", "D", "=", "x", "\n">>,
      <<"M", "Y", "S", "Q", "L", "_", "D", "A", "T", "A", "B", "A", "S", "E", "=", "a", "_", "b", "\n">>,
      <<"H", "O", "M", "E", "=", "/", "r", "o", "o", "t", "\n">> }

\* results of a dump command: exit status and combined output
DumpResults ==
    { [exit_code |-> 0, output |-> <<"D", "U", "M", "P">>],
      [exit_code |-> 1, output |-> <<"E", "R", "R">>] }

\* results of the listing command
LsResults ==
    { [exit_code |-> 2, output |-> <<"l", "s", ":", " ", "e", "r", "r", "\n">>],
      [exit_code |-> 0,
       output |-> <<"/", "c", "o", "n", "f", "i", "g", "/", "d", "a", "t", "a", "/", "x", ".", "d", "b", "\n">>],
      [exit_code |-> 0,
       output |-> <<"/", "c", "o", "n", "f", "i", "g", "/", "d", "a", "t", "a", "/", "x", ".", "d", "b", "\n",
                    "/", "c", "o", "n", "f", "i", "g", "/", "d", "a", "t", "a", "/", "x", ".", "y", ".", "d", "b", "\n">>] }

StartTime == 10 * SecondsPerDay + 59

\* the files of the backup directory when the run starts: one of each age in days, and
\* one in a subdirectory
OldPath(d) == BackupDir \o <<"/", "o", Digit(d)>>

NestedPath == BackupDir \o <<"/", "s", "/", "o", "3">>

OldFiles ==
    [p \in {OldPath(d) : d \in 0..3} \cup {NestedPath} |->
        IF p = NestedPath
        THEN [data |-> gzip_compress(<<>>), mtime |-> StartTime - 3 * SecondsPerDay]
        ELSE [data |-> gzip_compress(<<>>),
              mtime |-> StartTime - (CHOOSE d \in 0..3 : p = OldPath(d)) * SecondsPerDay]]

EmptyFS == [p \in {} |-> <<>>]

NoUnit == [fn |-> "none"]

Init ==
    /\ argv \in ArgvSet
    /\ pc = "start"
    /\ status = -1
    /\ error = ""
    /\ PATH = None
    /\ MAX_DAYS = None
    /\ now = StartTime
    /\ running \in Worlds
    /\ dirExists \in BOOLEAN
    /\ files = IF dirExists THEN OldFiles ELSE EmptyFS
    /\ strat = 0
    /\ containers = <<>>
    /\ listed = <<>>
    /\ idx = 0
    /\ paths = <<>>
    /\ pidx = 0
    /\ log = <<>>
    /\ unit = NoUnit

----------------------------------------------------------------------------
(* Actions of main.py *)

cls == Strategies[strat]

\* main.py lines 8 to 18
ValidateArgs ==
    /\ pc = "start"
    /\ LET outcome == ArgsOutcome(argv)
       IN  /\ pc' = IF outcome = "ok" THEN "construct" ELSE "exit"
           /\ status' = IF outcome = "ok" THEN status ELSE 1
           /\ error' = IF outcome = "ValueError" THEN "ValueError" ELSE error
           /\ PATH' = IF outcome \in {"missing"} THEN PATH ELSE Some(argv[1])
           /\ MAX_DAYS' = IF outcome \in {"missing", "ValueError"} THEN MAX_DAYS ELSE int(argv[2])
           /\ strat' = IF outcome = "ok" THEN 1 ELSE strat
    /\ UNCHANGED <<argv, now, running, dirExists, files, containers, listed, idx, paths, pidx, log, unit>>

\* docker.from_env().containers.list() of a constructor fails: the runtime is unreachable
RuntimeUnreachable ==
    /\ pc = "construct"
    /\ pc' = "exit"
    /\ status' = 1
    /\ error' = "DockerException"
    /\ UNCHANGED <<argv, PATH, MAX_DAYS, now, running, dirExists, files, strat, containers, listed,
                   idx, paths, pidx, log, unit>>

\* <Class>(PATH): BackupStrategy.__init__ through the subclass's __init__
Construct ==
    /\ pc = "construct"
    /\ listed' = running
    /\ dirExists' = ensure_backup_dir(dirExists)
    /\ containers' = Strategy_init(cls, running, None)[1]
    /\ idx' = 1
    /\ pc' = "execute"
    /\ log' = Append(log, [op |-> "construct", cls |-> cls, containers |-> containers'])
    /\ UNCHANGED <<argv, status, error, PATH, MAX_DAYS, now, running, files, strat, paths, pidx, unit>>

\* exec_run on a container that stopped since it was listed: the runtime's APIError, uncaught
ExecOnStopped ==
    /\ \/ pc = "execute" /\ idx <= Len(containers)
       \/ pc = "backup"
    /\ containers[idx] \notin Range(running)
    /\ pc' = "exit"
    /\ status' = 1
    /\ error' = "APIError"
    /\ UNCHANGED <<argv, PATH, MAX_DAYS, now, running, dirExists, files, strat, containers, listed,
                   idx, paths, pidx, log, unit>>

\* open(path, 'wb') succeeds when the directory of path exists
CanOpen(path) == dirExists /\ os_path_dirname(path) = PATH[1]

\* MySQLBackup.execute skipping the container whose dump command failed
MySQLBackup_execute_step_checked ==
    /\ pc = "execute"
    /\ ~IsSQLite(cls)
    /\ idx <= Len(containers)
    /\ containers[idx] \in Range(running)
    /\ \E env_output \in EnvOutputs, dump \in DumpResults :
          LET container == containers[idx]
              env == parse_env(env_output)
              path == format_file_path(PATH[1], mysql_backup_name(container, env), sql_gz, now)
          IN  IF dump.exit_code # 0
              THEN idx' = idx + 1 /\ UNCHANGED <<pc, status, error, files, log>>
              ELSE IF CanOpen(path)
              THEN /\ files' = write_compressed_file(files, path, dump.output, now)
                   /\ log' = Append(log, [op |-> "write", cls |-> cls, idx |-> idx,
                                          container |-> container, env |-> env_output,
                                          cmd |-> mysqldump_command(env),
                                          exit_code |-> dump.exit_code, output |-> dump.output,
                                          path |-> path, time |-> now])
                   /\ idx' = idx + 1
                   /\ UNCHANGED <<pc, status, error>>
              ELSE /\ pc' = "exit"
                   /\ status' = 1
                   /\ error' = "FileNotFoundError"
                   /\ UNCHANGED <<files, log, idx>>
    /\ UNCHANGED <<argv, PATH, MAX_DAYS, now, running, dirExists, strat, containers, listed,
                   paths, pidx, unit>>

\* one iteration of the loop of MySQLBackup.execute
MySQLBackup_execute_step ==
    /\ pc = "execute"
    /\ ~IsSQLite(cls)
    /\ idx <= Len(containers)
    /\ containers[idx] \in Range(running)
    /\ \E env_output \in EnvOutputs, dump \in DumpResults :
          LET container == containers[idx]
              env == parse_env(env_output)
              path == format_file_path(PATH[1], mysql_backup_name(container, env), sql_gz, now)
          IN  IF CanOpen(path)
              THEN /\ files' = write_compressed_file(files, path, dump.output, now)
                   /\ log' = Append(log, [op |-> "write", cls |-> cls, idx |-> idx,
                                          container |-> container, env |-> env_output,
                                          cmd |-> mysqldump_command(env),
                                          exit_code |-> dump.exit_code, output |-> dump.output,
                                          path |-> path, time |-> now])
                   /\ idx' = idx + 1
                   /\ UNCHANGED <<pc, status, error>>
              ELSE /\ pc' = "exit"
                   /\ status' = 1
                   /\ error' = "FileNotFoundError"
                   /\ UNCHANGED <<files, log, idx>>
    /\ UNCHANGED <<argv, PATH, MAX_DAYS, now, running, dirExists, strat, containers, listed,
                   paths, pidx, unit>>

\* the SQLite-family execute() going on to the next container when a listing fails
SQLite_execute_list_continue ==
    /\ pc = "execute"
    /\ IsSQLite(cls)
    /\ idx <= Len(containers)
    /\ containers[idx] \in Range(running)
    /\ \E ls_result \in LsResults :
          LET ls_output == str_strip(ls_result.output)
              failed == ls_result.exit_code # 0
          IN  /\ log' = Append(log, [op |-> "list", cls |-> cls, idx |-> idx,
                                         container |-> containers[idx], cmd |-> ls_command(cls),
                                         exit_code |-> ls_result.exit_code,
                                         paths |-> str_split(ls_output, "\n")])
              /\ pc' = IF failed THEN "execute" ELSE "backup"
              /\ paths' = IF failed THEN <<>> ELSE str_split(ls_output, "\n")
              /\ pidx' = IF failed THEN 0 ELSE 1
              /\ idx' = IF failed THEN idx + 1 ELSE idx
    /\ UNCHANGED <<argv, status, error, PATH, MAX_DAYS, now, running, dirExists, files, strat,
                   containers, listed, unit>>

\* the listing of one container in the SQLite-family execute()
SQLite_execute_list ==
    /\ pc = "execute"
    /\ IsSQLite(cls)
    /\ idx <= Len(containers)
    /\ containers[idx] \in Range(running)
    /\ \E ls_result \in LsResults :
          LET ls_output == str_strip(ls_result.output)
              failed == ls_result.exit_code # 0
          IN  /\ log' = Append(log, [op |-> "list", cls |-> cls, idx |-> idx,
                                         container |-> containers[idx], cmd |-> ls_command(cls),
                                         exit_code |-> ls_result.exit_code,
                                         paths |-> str_split(ls_output, "\n")])
                            \o (IF failed THEN <<[op |-> "return", cls |-> cls]>> ELSE <<>>)
              /\ pc' = IF failed THEN AfterExecute(strat).pc ELSE "backup"
              /\ strat' = IF failed THEN AfterExecute(strat).strat ELSE strat
              /\ paths' = IF failed THEN <<>> ELSE str_split(ls_output, "\n")
              /\ pidx' = IF failed THEN 0 ELSE 1
              /\ containers' = IF failed THEN <<>> ELSE containers
              /\ listed' = IF failed THEN <<>> ELSE listed
              /\ idx' = IF failed THEN 0 ELSE idx
    /\ UNCHANGED <<argv, status, error, PATH, MAX_DAYS, now, running, dirExists, files, unit>>

\* SQLiteGeneric.backup_database for one listed path, and the step of the loop over the paths
SQLite_backup_database ==
    /\ pc = "backup"
    /\ containers[idx] \in Range(running)
    /\ \E dump \in DumpResults :
          LET container == containers[idx]
              path == paths[pidx]
              backup_path == format_file_path(PATH[1], sqlite_backup_name(container, path), sql_gz, now)
              last == pidx = Len(paths)
          IN  IF CanOpen(backup_path)
              THEN /\ files' = write_compressed_file(files, backup_path, dump.output, now)
                   /\ log' = Append(log, [op |-> "write", cls |-> cls, idx |-> idx,
                                          container |-> container, db |-> path,
                                          cmd |-> sqlite_command(path),
                                          exit_code |-> dump.exit_code, output |-> dump.output,
                                          path |-> backup_path, time |-> now])
                   /\ pidx' = IF last THEN 0 ELSE pidx + 1
                   /\ paths' = IF last THEN <<>> ELSE paths
                   /\ idx' = IF last THEN idx + 1 ELSE idx
                   /\ pc' = IF last THEN "execute" ELSE "backup"
                   /\ UNCHANGED <<status, error>>
              ELSE /\ pc' = "exit"
                   /\ status' = 1
                   /\ error' = "FileNotFoundError"
                   /\ UNCHANGED <<files, log, idx, paths, pidx>>
    /\ UNCHANGED <<argv, PATH, MAX_DAYS, now, running, dirExists, strat, containers, listed, unit>>

\* execute() returns at the end of its loop over self.containers
ExecuteReturn ==
    /\ pc = "execute"
    /\ idx > Len(containers)
    /\ pc' = AfterExecute(strat).pc
    /\ strat' = AfterExecute(strat).strat
    /\ containers' = <<>>
    /\ listed' = <<>>
    /\ idx' = 0
    /\ log' = Append(log, [op |-> "return", cls |-> cls])
    /\ UNCHANGED <<argv, status, error, PATH, MAX_DAYS, now, running, dirExists, files, paths, pidx, unit>>

\* main.py line 27, and the end of the program
Prune ==
    /\ pc = "prune"
    /\ files' = delete_old_backups(files, PATH[1], MAX_DAYS[1], now)
    /\ log' = Append(log, [op |-> "prune", dir |-> PATH[1], max_days |-> MAX_DAYS[1], time |-> now])
    /\ pc' = "exit"
    /\ status' = 0
    /\ UNCHANGED <<argv, error, PATH, MAX_DAYS, now, running, dirExists, strat, containers, listed,
                   idx, paths, pidx, unit>>

\* a second passes
Tick ==
    /\ pc \in {"start", "construct", "execute", "backup", "prune"}
    /\ now < StartTime + MaxTicks
    /\ now' = now + 1
    /\ UNCHANGED <<argv, pc, status, error, PATH, MAX_DAYS, running, dirExists, files, strat,
                   containers, listed, idx, paths, pidx, log, unit>>

\* a running container stops; this program starts and stops none
StopContainer ==
    /\ pc \in {"construct", "execute", "backup"}
    /\ \E i \in 1..Len(running) :
          running' = SubSeq(running, 1, i - 1) \o SubSeq(running, i + 1, Len(running))
    /\ UNCHANGED <<argv, pc, status, error, PATH, MAX_DAYS, now, dirExists, files, strat,
                   containers, listed, idx, paths, pidx, log, unit>>

Next ==
    \/ ValidateArgs
    \/ RuntimeUnreachable
    \/ Construct
    \/ ExecOnStopped
    \/ MySQLBackup_execute_step
    \/ SQLite_execute_list
    \/ SQLite_backup_database
    \/ ExecuteReturn
    \/ Prune
    \/ Tick
    \/ StopContainer

Spec == Init /\ [][Next]_vars

----------------------------------------------------------------------------
(* Direct calls of the library functions, on inputs drawn from bounded sets *)

Idle ==
    /\ argv = <<>>
    /\ pc = "unit"
    /\ status = -1
    /\ error = ""
    /\ PATH = None
    /\ MAX_DAYS = None
    /\ now = StartTime
    /\ running = <<>>
    /\ dirExists = FALSE
    /\ files = EmptyFS
    /\ strat = 0
    /\ containers = <<>>
    /\ listed = <<>>
    /\ idx = 0
    /\ paths = <<>>
    /\ pidx = 0
    /\ log = <<>>

EnvAlphabet == {"A", "1", "=", "\n"}

EnvTexts == UNION {[1..n -> EnvAlphabet] : n \in 0..MaxTextLen}

KeywordPool == {<<"m", "y", "s", "q", "l">>, <<"j", "e", "l", "l", "y", "f", "i", "n">>}

KeywordOptions == {None} \cup {Some(l) : l \in UNION {[1..n -> KeywordPool] : n \in 0..MaxKeywords}}

InitParse ==
    /\ Idle
    /\ \E output \in EnvTexts :
          unit = [fn |-> "parse_env", output |-> output, done |-> FALSE, result |-> EmptyDict]

\* parse_env(container), the container's env output being unit.output
ParseEnvCall ==
    /\ unit.fn = "parse_env"
    /\ ~unit.done
    /\ unit' = [unit EXCEPT !.done = TRUE, !.result = parse_env(unit.output)]
    /\ UNCHANGED mainVars

SpecParse == InitParse /\ [][ParseEnvCall]_vars

InitMerge ==
    /\ Idle
    /\ \/ \E k \in KeywordOptions, c \in KeywordOptions :
             unit = [fn |-> "merge_keywords", keywords |-> k, custom_keywords |-> c,
                     done |-> FALSE, result |-> None]
       \/ \E class \in Range(Strategies), c \in KeywordOptions, listing \in Worlds :
             unit = [fn |-> "init", cls |-> class, custom_keywords |-> c, listing |-> listing,
                     done |-> FALSE, result |-> None]

\* merge_keywords(keywords, custom_keywords)
MergeKeywordsCall ==
    /\ unit.fn = "merge_keywords"
    /\ ~unit.done
    /\ unit' = [unit EXCEPT !.done = TRUE,
                            !.result = merge_keywords(unit.keywords, unit.custom_keywords)]
    /\ UNCHANGED mainVars

\* <Class>(backup_dir, keywords=custom_keywords), the runtime listing unit.listing
StrategyInitCall ==
    /\ unit.fn = "init"
    /\ ~unit.done
    /\ unit' = [unit EXCEPT !.done = TRUE,
                            !.result = Strategy_init(unit.cls, unit.listing, unit.custom_keywords)]
    /\ UNCHANGED mainVars

NextMerge == MergeKeywordsCall \/ StrategyInitCall

SpecMerge == InitMerge /\ [][NextMerge]_vars

----------------------------------------------------------------------------
(* Properties *)

\* the work of a run: nothing was constructed, run, written or deleted
NoWorkDone ==
    /\ log = <<>>
    /\ strat = 0
    /\ pc \in {"start", "exit"}
    /\ files = IF dirExists THEN OldFiles ELSE EmptyFS

\* C1, as stated: whenever the arguments are not exactly <backup_dir> <max_days> with
\* max_days a positive integer, the program does no work and ends with a non-zero status
C1_ExactlyTwoArguments ==
    ~(Len(argv) = 2 /\ int(argv[2]) # None /\ int(argv[2])[1] >= 1)
        => NoWorkDone /\ (pc = "exit" => status # 0)

\* C1, amended: whenever fewer than two arguments are given, or the second is no integer
\* or is below 1, the program does no work and ends with a non-zero status; arguments
\* after the second are ignored
C1_MissingOrInvalidArguments ==
    (Len(argv) < 2 \/ int(argv[2]) = None \/ int(argv[2])[1] < 1)
        => NoWorkDone /\ (pc = "exit" => status # 0)

C1_Witness ==
    /\ pc = "exit"
    /\ status = 1
    /\ Len(argv) = 2
    /\ int(argv[2]) = Some(0)
    /\ files = OldFiles

IsOrderEvent(e) == e.op \in {"construct", "return", "prune"}

\* the constructions, the returns of execute() and the pruning of a log, in order
OrderOf(l) ==
    LET sel == SelectSeq(l, IsOrderEvent)
    IN  [i \in 1..Len(sel) |-> <<sel[i].op, IF sel[i].op = "prune" THEN "" ELSE sel[i].cls>>]

ExpectedOrder ==
    << <<"construct", "MySQLBackup">>, <<"return", "MySQLBackup">>,
       <<"construct", "JellyfinBackup">>, <<"return", "JellyfinBackup">>,
       <<"construct", "RadarrBackup">>, <<"return", "RadarrBackup">>,
       <<"construct", "SonarrBackup">>, <<"return", "SonarrBackup">>,
       <<"construct", "GrocyBackup">>, <<"return", "GrocyBackup">>,
       <<"construct", "DuplicatiBackup">>, <<"return", "DuplicatiBackup">>,
       <<"prune", "">> >>

\* the class whose execute() is running when event i of the log happens, "" if none is
RunningClass(l, i) ==
    LET before == {j \in 1..(i - 1) : IsOrderEvent(l[j])}
    IN  IF before = {} THEN ""
        ELSE LET j == CHOOSE j \in before : \A k \in before : k <= j
             IN  IF l[j].op = "construct" THEN l[j].cls ELSE ""

\* C2: the strategies are constructed and executed one after the other, the relational
\* one first and the SQLite-family ones after it in the driver's order; every listing and
\* every write happens inside the execute() of its strategy; the pruner runs only after
\* the last execute() has returned, and a run that ends with status 0 ran every
\* execute() and then the pruner exactly once, over the directory given as <backup_dir>
C2_StrategiesThenPruner ==
    LET o == OrderOf(log)
    IN  /\ Len(o) <= Len(ExpectedOrder)
        /\ o = SubSeq(ExpectedOrder, 1, Len(o))
        /\ \A i \in 1..Len(log) :
              /\ log[i].op \in {"list", "write"} => RunningClass(log, i) = log[i].cls
              /\ log[i].op = "prune" => log[i].dir = argv[1]
              /\ log[i].op = "write" => os_path_dirname(log[i].path) = argv[1]
        /\ (pc = "exit" /\ status = 0) => o = ExpectedOrder

C2_Witness ==
    /\ pc = "exit"
    /\ status = 0
    /\ \E i \in 1..Len(log) : log[i].op = "list" /\ log[i].exit_code # 0
    /\ \E i \in 1..Len(log) : log[i].op = "write" /\ log[i].cls = "MySQLBackup"

\* p names a file directly in directory dir
DirectlyIn(p, dir) ==
    /\ Len(p) > Len(dir) + 1
    /\ SubSeq(p, 1, Len(dir) + 1) = dir \o <<"/">>
    /\ \A j \in (Len(dir) + 2)..Len(p) : p[j] # "/"

\* C3: the pruner removes exactly the files directly in the backup directory whose
\* last-modified time is strictly before now minus max_days days; every other file,
\* one exactly at the cutoff included, stays as it was
C3_PrunesStrictlyOlder ==
    [][(pc = "prune" /\ pc' = "exit") =>
          /\ DOMAIN files' \subseteq DOMAIN files
          /\ \A p \in DOMAIN files' : files'[p] = files[p]
          /\ \A p \in DOMAIN files :
                p \notin DOMAIN files' <=>
                    (DirectlyIn(p, argv[1]) /\ files[p].mtime < now - int(argv[2])[1] * 86400)]_vars

\* the run of max_days 2 that prunes at the second it started: the files of day 0,
\* day 1 and day 2 (at the cutoff) stay, the file of day 3 goes, the nested one stays
C3_Witness ==
    /\ pc = "exit"
    /\ status = 0
    /\ int(argv[2]) = Some(2)
    /\ now = StartTime
    /\ {OldPath(0), OldPath(1), OldPath(2), NestedPath} \subseteq DOMAIN files
    /\ OldPath(3) \notin DOMAIN files

\* the lines of a text, and the lines holding exactly one "="
LinesOf(text) == str_split(text, "\n")

EqualsIn(line) == {i \in 1..Len(line) : line[i] = "="}

OneEquals(line) == Cardinality(EqualsIn(line)) = 1

KeyOf(line) == SubSeq(line, 1, (CHOOSE i \in EqualsIn(line) : TRUE) - 1)

ValueOf(line) == SubSeq(line, (CHOOSE i \in EqualsIn(line) : TRUE) + 1, Len(line))

PairsOf(d) == {<<k, d[k]>> : k \in DOMAIN d}

\* C4, as stated: the mapping holds a pair for a line if and only if the line splits on
\* "=" into exactly two non-empty segments
C4_NonEmptySegments ==
    (unit.fn = "parse_env" /\ unit.done) =>
        LET lines == LinesOf(unit.output)
        IN  PairsOf(unit.result) =
                {<<KeyOf(lines[i]), ValueOf(lines[i])>> :
                    i \in {i \in 1..Len(lines) :
                             /\ OneEquals(lines[i])
                             /\ KeyOf(lines[i]) # <<>>
                             /\ ValueOf(lines[i]) # <<>>}}

\* C4, amended: the keys of the mapping are the keys of the lines holding exactly one
\* "=", key or value possibly empty, and each key maps to the value of the last such
\* line with that key; lines with no "=" or more than one contribute nothing, and an
\* empty input gives the empty mapping
C4_ExactlyOneEquals ==
    (unit.fn = "parse_env" /\ unit.done) =>
        LET lines == LinesOf(unit.output)
            good == {i \in 1..Len(lines) : OneEquals(lines[i])}
            lastOf(k) == CHOOSE i \in good :
                            /\ KeyOf(lines[i]) = k
                            /\ \A j \in good : KeyOf(lines[j]) = k => j <= i
        IN  /\ DOMAIN unit.result = {KeyOf(lines[i]) : i \in good}
            /\ \A k \in DOMAIN unit.result : unit.result[k] = ValueOf(lines[lastOf(k)])
            /\ unit.output = <<>> => unit.result = EmptyDict

\* a text whose first line has an empty value and whose second has an empty key
C4_Witness ==
    /\ unit.fn = "parse_env"
    /\ unit.done
    /\ unit.output = <<"A", "=", "\n", "=", "1">>
    /\ DOMAIN unit.result = {<<"A">>, <<>>}

\* k occurs in name
Occurs(k, name) ==
    \E i \in 0..(Len(name) - Len(k)) : \A j \in 1..Len(k) : name[i + j] = k[j]

\* the names of a listing that hold one of the keywords, once each and in order
Matching(listing, keywords) ==
    LET Holds(name) == \E i \in 1..Len(keywords) : Occurs(keywords[i], name)
    IN  SelectSeq(listing, Holds)

\* C5: merge_keywords returns the defaults when custom is None, custom when the
\* defaults are None, None when both are, and otherwise the defaults followed by the
\* custom keywords, duplicates kept; a constructor given custom keywords filters the
\* listing with the class's defaults followed by them
C5_MergeKeywords ==
    /\ (unit.fn = "merge_keywords" /\ unit.done) =>
          LET k == unit.keywords
              c == unit.custom_keywords
              r == unit.result
          IN  /\ c = None => r = k
              /\ (k = None /\ c # None) => r = c
              /\ (k = None /\ c = None) => r = None
              /\ (k # None /\ c # None) =>
                    /\ r # None
                    /\ Len(r[1]) = Len(k[1]) + Len(c[1])
                    /\ \A i \in 1..Len(k[1]) : r[1][i] = k[1][i]
                    /\ \A i \in 1..Len(c[1]) : r[1][Len(k[1]) + i] = c[1][i]
    /\ (unit.fn = "init" /\ unit.done) =>
          LET defaults == CASE unit.cls = "MySQLBackup" ->
                                  <<<<"m", "y", "s", "q", "l">>, <<"m", "a", "r", "i", "a", "d", "b">>>>
                            [] unit.cls = "JellyfinBackup" -> <<<<"j", "e", "l", "l", "y", "f", "i", "n">>>>
                            [] OTHER -> AppBackup_keywords(unit.cls)
              merged == IF unit.custom_keywords = None THEN defaults
                        ELSE defaults \o unit.custom_keywords[1]
          IN  unit.result = Some(Matching(unit.listing, merged))

\* the relational strategy built with the custom keyword jellyfin over a listing of
\* a Jellyfin, an unrelated and a MySQL container
C5_Witness ==
    /\ unit.fn = "init"
    /\ unit.done
    /\ unit.cls = "MySQLBackup"
    /\ unit.custom_keywords = Some(<<nJelly>>)
    /\ unit.listing = <<nJelly, nUpper, nMysql>>
    /\ unit.result = Some(<<nJelly, nMysql>>)

\* C6: between its construction and the return of its execute(), a strategy's container
\* list is the containers listed at its construction whose name holds one of its
\* keywords (case-sensitive), once each and in listing order, whatever has stopped
\* since; no step of execute() changes it
C6_FilteredSnapshot ==
    /\ [](pc \in {"execute", "backup"} => containers = Matching(listed, ClassKeywords(cls)))
    /\ [][(pc \in {"execute", "backup"} /\ pc' \in {"execute", "backup"}) =>
             (containers' = containers /\ listed' = listed)]_vars

\* execute() has processed a container of a snapshot that no longer is what runs
C6_Witness ==
    /\ pc = "execute"
    /\ idx > 1
    /\ listed # running
    /\ containers # <<>>
    /\ Len(containers) < Len(listed)

\* C7: while a strategy executes the backup directory exists; every write happens with
\* the directory present, and no step removes the directory
C7_DirectoryBeforeWrite ==
    /\ [](pc \in {"execute", "backup"} => dirExists)
    /\ [][(files' # files /\ pc \in {"execute", "backup"}) => (dirExists /\ dirExists')]_vars
    /\ [][dirExists => dirExists']_vars

\* a file was written in a run that started without the backup directory
C7_Witness ==
    /\ pc \in {"execute", "backup"}
    /\ OldPath(0) \notin DOMAIN files
    /\ \E i \in 1..Len(log) : log[i].op = "write" /\ log[i].path \in DOMAIN files

IsWrite(e) == e.op = "write"

IsMySQLWrite(e) == e.op = "write" /\ e.cls = "MySQLBackup"

\* the database name an env output gives: the value of its MYSQL_DATABASE line, and the
\* text None when it has no such line
DatabaseName(env_output) ==
    LET var == <<"M", "Y", "S", "Q", "L", "_", "D", "A", "T", "A", "B", "A", "S", "E", "=">>
        lines == LinesOf(env_output)
        given == {i \in 1..Len(lines) :
                     /\ Len(lines[i]) >= Len(var)
                     /\ SubSeq(lines[i], 1, Len(var)) = var
                     /\ OneEquals(lines[i])}
    IN  IF given = {} THEN <<"N", "o", "n", "e">>
        ELSE LET i == CHOOSE i \in given : \A j \in given : j <= i
             IN  SubSeq(lines[i], Len(var) + 1, Len(lines[i]))

\* C8: once MySQLBackup.execute() has returned, it has written once for each container
\* of its list, in order, whatever the dump's exit status and the container's
\* environment, to <backup_dir>/<container>_<database>_<timestamp>.sql.gz; and the file
\* a write of it leaves decompresses to the output of the dump command
C8_OneFilePerContainer ==
    LET w == SelectSeq(log, IsMySQLWrite)
        last == log[Len(log)]
    IN  /\ (\E i \in 1..Len(log) : log[i].op = "return" /\ log[i].cls = "MySQLBackup") =>
              /\ log[1].op = "construct"
              /\ log[1].cls = "MySQLBackup"
              /\ Len(w) = Len(log[1].containers)
              /\ \A i \in 1..Len(w) :
                    /\ w[i].container = log[1].containers[i]
                    /\ w[i].path = argv[1] \o <<"/">> \o w[i].container \o <<"_">>
                                       \o DatabaseName(w[i].env) \o <<"_">> \o strftime(w[i].time)
                                       \o <<".", "s", "q", "l", ".", "g", "z">>
        /\ (log # <<>> /\ IsMySQLWrite(last)) =>
              /\ last.path \in DOMAIN files
              /\ gzip_decompress(files[last.path].data) = Some(last.output)

\* execute() returned after storing the output of a failed dump of a container whose
\* environment has neither variable
C8_Witness ==
    /\ \E i \in 1..Len(log) : log[i].op = "return" /\ log[i].cls = "MySQLBackup"
    /\ \E i \in 1..Len(log) :
          /\ IsMySQLWrite(log[i])
          /\ log[i].exit_code = 1
          /\ DatabaseName(log[i].env) = <<"N", "o", "n", "e">>
          /\ log[i].path \in DOMAIN files
          /\ gzip_decompress(files[log[i].path].data) = Some(<<"E", "R", "R">>)

\* C9: after a listing that failed, execute() returns at once: nothing more of that
\* strategy is listed or written, and the files it wrote before are in place when it
\* returns; after a listing that succeeded, the next operations are one backup_database
\* per listed path of that container, in order, before the next container is listed
C9_ListingFailureAborts ==
    \A i \in 1..Len(log) :
        log[i].op = "list" =>
            IF log[i].exit_code # 0
            THEN /\ i < Len(log) => (log[i + 1].op = "return" /\ log[i + 1].cls = log[i].cls)
                 /\ \A j \in (i + 1)..Len(log) :
                       log[j].op \in {"list", "write"} => log[j].cls # log[i].cls
                 /\ i + 1 = Len(log) =>
                       \A j \in 1..(i - 1) :
                           (IsWrite(log[j]) /\ log[j].cls = log[i].cls) =>
                               /\ log[j].path \in DOMAIN files
                               /\ \E k \in j..(i - 1) :
                                     /\ IsWrite(log[k])
                                     /\ log[k].path = log[j].path
                                     /\ files[log[j].path] =
                                            [data |-> gzip_compress(log[k].output), mtime |-> log[k].time]
            ELSE /\ \A k \in 1..Len(log[i].paths) :
                       i + k <= Len(log) =>
                           /\ IsWrite(log[i + k])
                           /\ log[i + k].cls = log[i].cls
                           /\ log[i + k].container = log[i].container
                           /\ log[i + k].db = log[i].paths[k]
                 /\ i + Len(log[i].paths) + 1 <= Len(log) =>
                       log[i + Len(log[i].paths) + 1].op \in {"list", "return"}

\* the listing of the second of two containers fails after the two databases of the
\* first were backed up, and execute() has returned
C9_Witness ==
    /\ Len(log) >= 5
    /\ Last(log).op = "return"
    /\ log[Len(log) - 1].op = "list"
    /\ log[Len(log) - 1].exit_code # 0
    /\ log[Len(log) - 1].idx = 2
    /\ IsWrite(log[Len(log) - 2])
    /\ IsWrite(log[Len(log) - 3])
    /\ log[Len(log) - 2].cls = "JellyfinBackup"

\* the database a write backs up: the database name, or the database file's path
SourceOf(e) == IF e.cls = "MySQLBackup" THEN DatabaseName(e.env) ELSE e.db

\* the qualifier of a write: the database name, or the file's base name up to its first "."
QualifierOf(e) ==
    IF e.cls = "MySQLBackup" THEN DatabaseName(e.env)
    ELSE LET base == Last(str_split(e.db, "/"))
             dots == {i \in 1..Len(base) : base[i] = "."}
         IN  IF dots = {} THEN base
             ELSE SubSeq(base, 1, (CHOOSE i \in dots : \A j \in dots : i <= j) - 1)

\* C10: two writes go to the same path only within one second, for one container name
\* and one qualifier; writes for different containers, or for different databases of
\* one container, never go to the same path
C10_UniquePaths ==
    \A i \in 1..Len(log) : \A j \in (i + 1)..Len(log) :
        (IsWrite(log[i]) /\ IsWrite(log[j])) =>
            /\ log[i].path = log[j].path =>
                  /\ log[i].time = log[j].time
                  /\ log[i].container = log[j].container
                  /\ QualifierOf(log[i]) = QualifierOf(log[j])
            /\ (log[i].container # log[j].container \/ SourceOf(log[i]) # SourceOf(log[j])) =>
                  log[i].path # log[j].path

====
